---- MODULE Spec2Model ----
(***************************************************************************)
(* Model of modules/vox/vox.c: the voice-operated switch (VOX) of baresip. *)
(*                                                                         *)
(* The decision state (ptt_release, and ptt_set's static "current") and    *)
(* the four settings are file-scope statics shared by every decoder state. *)
(* Each decoder state (struct vox_dec) has its own timer, loudness and     *)
(* started flag.  The handlers run on the event loop of libre, one at a    *)
(* time, so each handler is one atomic action.                             *)
(*                                                                         *)
(* Loudness (a double in dBov, the result of aulevel_calc_dbov, which is   *)
(* not part of this module) is modelled by integer dBov values; the fields *)
(* au and fmt of struct vox_dec take no part in any decision and are left  *)
(* out.                                                                    *)
(***************************************************************************)
EXTENDS Integers, Sequences, FiniteSets, TLC

(* ------------------------------ bounds --------------------------------- *)

\* Number of stream slots (struct aufilt_dec_st **stp) the host holds.
MaxDecoders == 2

\* The history counter "since" saturates at this value.
MaxSince == 11

\* Changes of the logical output followed before the model stops toggling.
MaxChanges == 3

Slots == 1 .. MaxDecoders

\* The lowest level aulevel_calc_dbov reports (librem's AULEVEL_MIN), which
\* is also its result for a frame of no samples.
AULEVEL_MIN == -96

\* Loudness values delivered by aulevel_calc_dbov (dBov, 0 = full scale).
Levels == {AULEVEL_MIN, -60, 0}

(* --------------------------- configuration ----------------------------- *)

\* A configuration entry is <<>> when conf_get_u32 fails (setting absent or
\* malformed) and <<hi, lo>> when it succeeds with the uint32 hi * 2^16 + lo.
HALF == 65536

\* Hold times: absent (1000 ms), 200 ms, 50 ms (less than UPDATE_PERIOD) and
\* 4294967146, which is -150 as an int.
ConfHoldtime  == {<< >>, <<0, 200>>, <<0, 50>>, <<65535, 65386>>}
ConfPtt       == {<< >>, <<0, 7>>}
ConfSquelch   == {<< >>, <<0, 2>>}

\* The configurations module_init is run with: every combination of the
\* above with the threshold absent, and one with the threshold set to 80.
Confs ==
    [threshold : {<< >>}, holdtime : ConfHoldtime,
     gpio_ptt : ConfPtt, gpio_squelch : ConfSquelch]
    \cup {[threshold |-> <<0, 80>>, holdtime |-> <<0, 200>>,
           gpio_ptt |-> <<0, 7>>, gpio_squelch |-> <<0, 2>>]}

\* "int x = v" for a uint32_t v: the value modulo 2^32 in two's complement.
U32ToInt(v) ==
    IF v[1] >= HALF \div 2 THEN (v[1] - HALF) * HALF + v[2]
                           ELSE v[1] * HALF + v[2]

\* "if (0 == conf_get_u32(conf, key, &v)) var = v;"
conf_get_u32(entry, old) == IF entry = << >> THEN old ELSE U32ToInt(entry)

\* Integer division of C: the quotient is truncated toward zero.
CDiv(a, b) == IF a >= 0 THEN a \div b ELSE -((-a) \div b)

UPDATE_PERIOD == 100

\* The error codes of errno.h that the handlers return.
EINVAL == 22
ENOMEM == 12

(* ------------------------------- state --------------------------------- *)

VARIABLES
    phase,             \* "unloaded", "loaded" (aufilt registered), "closed"
    vox_threshold,     \* static int vox_threshold
    vox_holdtime,      \* static int vox_holdtime
    vox_gpio_ptt,      \* static int vox_gpio_ptt (-1: unset)
    vox_gpio_squelch,  \* static int vox_gpio_squelch (-1: unset)
    ptt_release,       \* static int ptt_release: the countdown
    current,           \* static bool current of ptt_set: last-applied output
    dec,               \* the decoder state of each slot (struct vox_dec)
    gpio_out,          \* level last written with digitalWrite ("none" so far)
    nwrites,           \* history: number of digitalWrite calls
    nchanges,          \* history: number of changes of current
    since,             \* history: ticks since the last qualifying tick; -1
                       \* when there was none, or a squelched tick after
                       \* it; -2 when that squelched tick cut a hold short
    last,              \* history: the operation that ran last
    fired,             \* TimedSpec: slots whose timer fired in this period
    relStart,          \* TimedSpec: the countdown when this period began
    psince,            \* TimedSpec: periods begun since the last qualifying
                       \* tick (-1: no such tick so far)
    pend,              \* RaceSpec: the store of a running decode that is
                       \* not yet visible to the timer thread, per slot
    written            \* RaceSpec: slots whose avg_play a decode has stored

vars ==
    <<phase, vox_threshold, vox_holdtime, vox_gpio_ptt, vox_gpio_squelch,
      ptt_release, current, dec, gpio_out, nwrites, nchanges, since, last,
      fired, relStart, psince, pend, written>>

\* The variables that only the timed specification changes.
timed_vars == <<fired, relStart, psince>>

\* The variables that only the specification of the two threads changes.
race_vars == <<pend, written>>

\* No decode is running on the slot.
NoStore == [store |-> "none", value |-> 0]

conf_vars == <<vox_threshold, vox_holdtime, vox_gpio_ptt, vox_gpio_squelch>>

\* mem_zalloc: every field zero; the slot is empty until decode_update.
NoDec == [alive |-> FALSE, tmr |-> FALSE, started |-> FALSE, avg_play |-> 0]

\* The record of an operation: its name, its return value and, for a timer
\* handler, what it read (started, the squelch input, the loudness), the
\* decision state it started from and the GPIO primitives it invoked.
Ev(op, ret) ==
    [op |-> op, ret |-> ret, started |-> FALSE, sq |-> FALSE, value |-> 0,
     rel0 |-> 0, cur0 |-> FALSE, read |-> FALSE, wrote |-> FALSE]

\* The settings as vox_update and ptt_set read them.
Cfg ==
    [threshold |-> vox_threshold, holdtime |-> vox_holdtime,
     ptt |-> vox_gpio_ptt, squelch |-> vox_gpio_squelch]

\* vox_holdtime / UPDATE_PERIOD
HoldTicks == CDiv(vox_holdtime, UPDATE_PERIOD)

Init ==
    /\ phase = "unloaded"
    /\ vox_threshold = 60
    /\ vox_holdtime = 1000
    /\ vox_gpio_ptt = -1
    /\ vox_gpio_squelch = -1
    /\ ptt_release = 0
    /\ current = FALSE
    /\ dec = [s \in Slots |-> NoDec]
    /\ gpio_out = "none"
    /\ nwrites = 0
    /\ nchanges = 0
    /\ since = -1
    /\ last = Ev("none", 0)
    /\ fired = {}
    /\ relStart = 0
    /\ psince = -1
    /\ pend = [s \in Slots |-> NoStore]
    /\ written = {}

(* ------------------------- the decision engine ------------------------- *)

\* Mutant of squelch: the pin is read even when it is unset.
squelch_ReadsUnsetPin(pin, level) ==
    [asserted |-> level, read |-> TRUE]

\* squelch(): level is what digitalRead would return for the squelch pin.
squelch(pin, level) ==
    IF pin # -1 THEN [asserted |-> level, read |-> TRUE]
                ELSE [asserted |-> FALSE, read |-> FALSE]

\* Mutant of ptt_set: no test of the last-applied value before the write.
ptt_set_AlwaysWrites(value, cur, pin) ==
    [current |-> value, wrote |-> pin # -1]

\* ptt_set(value), from the last-applied value cur.
ptt_set(value, cur, pin) ==
    IF value = cur
      THEN [current |-> cur, wrote |-> FALSE]
      ELSE [current |-> value, wrote |-> pin # -1]

\* The result of vox_update once the countdown is armed.
Decide(armed, cur, ptt, sq) ==
    LET out == ptt_set(armed > 0, cur, ptt)
    IN  [ptt_release |-> IF armed > 0 THEN armed - 1 ELSE armed,
         current     |-> out.current,
         wrote       |-> out.wrote,
         read        |-> sq.read,
         sq          |-> sq.asserted]

\* Mutant of vox_update: squelch only keeps the countdown from being armed.
vox_update_SquelchPauses(value, rel, cur, cfg, level) ==
    LET sq    == squelch(cfg.squelch, level)
        armed == IF sq.asserted THEN rel
                 ELSE IF value > -cfg.threshold
                   THEN CDiv(cfg.holdtime, UPDATE_PERIOD)
                 ELSE rel
    IN  Decide(armed, cur, cfg.ptt, sq)

\* Mutant of vox_update: a squelched tick disables the output and leaves
\* the countdown as it is, to go on when squelch is released.
vox_update_SquelchSkipsTick(value, rel, cur, cfg, level) ==
    LET sq    == squelch(cfg.squelch, level)
        armed == IF value > -cfg.threshold /\ ~sq.asserted
                   THEN CDiv(cfg.holdtime, UPDATE_PERIOD)
                 ELSE rel
        out   == ptt_set(FALSE, cur, cfg.ptt)
    IN  IF sq.asserted
          THEN [ptt_release |-> rel, current |-> out.current,
                wrote |-> out.wrote, read |-> sq.read, sq |-> TRUE]
          ELSE Decide(armed, cur, cfg.ptt, sq)

\* Mutant of vox_update: the countdown is decremented before it is tested.
vox_update_DecrementsFirst(value, rel, cur, cfg, level) ==
    LET sq    == squelch(cfg.squelch, level)
        armed == IF sq.asserted THEN 0
                 ELSE IF value > -cfg.threshold
                   THEN CDiv(cfg.holdtime, UPDATE_PERIOD)
                 ELSE rel
        left  == IF armed > 0 THEN armed - 1 ELSE armed
        out   == ptt_set(left > 0, cur, cfg.ptt)
    IN  [ptt_release |-> left, current |-> out.current, wrote |-> out.wrote,
         read |-> sq.read, sq |-> sq.asserted]

\* Mutant of vox_update: the countdown is armed only when it has run out.
vox_update_ArmsOnce(value, rel, cur, cfg, level) ==
    LET sq    == squelch(cfg.squelch, level)
        armed == IF sq.asserted THEN 0
                 ELSE IF value > -cfg.threshold /\ rel = 0
                   THEN CDiv(cfg.holdtime, UPDATE_PERIOD)
                 ELSE rel
    IN  Decide(armed, cur, cfg.ptt, sq)

\* Mutant of vox_update: the countdown is not decremented.
vox_update_NoDecrement(value, rel, cur, cfg, level) ==
    LET sq    == squelch(cfg.squelch, level)
        armed == IF sq.asserted THEN 0
                 ELSE IF value > -cfg.threshold
                   THEN CDiv(cfg.holdtime, UPDATE_PERIOD)
                 ELSE rel
        out   == ptt_set(armed > 0, cur, cfg.ptt)
    IN  [ptt_release |-> armed, current |-> out.current, wrote |-> out.wrote,
         read |-> sq.read, sq |-> sq.asserted]

\* vox_update(value), from countdown rel and last-applied output cur, with
\* the settings cfg.
vox_update(value, rel, cur, cfg, level) ==
    LET sq    == squelch(cfg.squelch, level)
        armed == IF sq.asserted THEN 0
                 ELSE IF value > -cfg.threshold
                   THEN CDiv(cfg.holdtime, UPDATE_PERIOD)
                 ELSE rel
    IN  Decide(armed, cur, cfg.ptt, sq)

\* The GPIO collaborator and the history after an output request.
Output(out) ==
    /\ out.current # current => nchanges < MaxChanges
    /\ current' = out.current
    /\ nchanges' = IF out.current # current THEN nchanges + 1 ELSE nchanges
    /\ nwrites' = IF out.wrote THEN nwrites + 1 ELSE nwrites
    /\ gpio_out' = IF out.wrote
                     THEN (IF out.current THEN "HIGH" ELSE "LOW")
                     ELSE gpio_out

Min(a, b) == IF a < b THEN a ELSE b

\* Argument shapes of a host call: which of its three pointers is null (at
\* most one; the handlers test them with a single disjunction).
ValidArgs == <<FALSE, FALSE, FALSE>>
NullArgs == {<<TRUE, FALSE, FALSE>>, <<FALSE, TRUE, FALSE>>,
             <<FALSE, FALSE, TRUE>>}

\* decode_update: <<stp, af, prm null?, mem_zalloc fails?>>
UpdateArgs ==
    {<<ValidArgs, m>> : m \in BOOLEAN} \cup {<<n, FALSE>> : n \in NullArgs}

\* decode: <<st, sampv, sampc null?, *sampc, loudness of the samples>>; a
\* frame has one sample or none (*sampc = 0).
DecodeArgs ==
    {<<ValidArgs, 1, l>> : l \in Levels} \cup {<<ValidArgs, 0, 0>>}
        \cup {<<n, 1, 0>> : n \in NullArgs}

\* aulevel_calc_dbov(vu->fmt, sampv, *sampc) for samples of loudness level.
aulevel_calc_dbov(sampc, level) == IF sampc = 0 THEN AULEVEL_MIN ELSE level

(* ------------------------------ handlers ------------------------------- *)

module_init(conf) ==
    /\ phase = "unloaded"
    /\ phase' = "loaded"
    /\ vox_threshold' = conf_get_u32(conf.threshold, vox_threshold)
    /\ vox_holdtime' = conf_get_u32(conf.holdtime, vox_holdtime)
    /\ vox_gpio_ptt' = conf_get_u32(conf.gpio_ptt, vox_gpio_ptt)
    /\ vox_gpio_squelch' = conf_get_u32(conf.gpio_squelch, vox_gpio_squelch)
    /\ last' = Ev("module_init", 0)
    /\ UNCHANGED <<ptt_release, current, dec, gpio_out, nwrites, nchanges,
                   since>>

\* module_close leaves the decoder states and their timers as they are.
module_close ==
    /\ phase = "loaded"
    /\ phase' = "closed"
    /\ LET out == ptt_set(FALSE, current, vox_gpio_ptt)
       IN  /\ Output(out)
           /\ last' = [Ev("module_close", 0) EXCEPT !.cur0 = current,
                         !.rel0 = ptt_release, !.wrote = out.wrote]
    /\ UNCHANGED <<conf_vars, ptt_release, dec, since>>

\* Mutant of decode_update: the test of *stp is left out.
decode_update_IgnoresExisting(s, stpNull, afNull, prmNull, nomem) ==
    /\ phase = "loaded"
    /\ IF stpNull \/ afNull \/ prmNull
         THEN /\ last' = Ev("decode_update", EINVAL)
              /\ UNCHANGED dec
         ELSE IF nomem
         THEN /\ last' = Ev("decode_update", ENOMEM)
              /\ UNCHANGED dec
         ELSE /\ dec' = [dec EXCEPT ![s] =
                            [NoDec EXCEPT !.alive = TRUE, !.tmr = TRUE]]
              /\ last' = Ev("decode_update", 0)
    /\ UNCHANGED <<phase, conf_vars, ptt_release, current, gpio_out, nwrites,
                   nchanges, since>>

\* The host calls decode_update through the registered filter, that is
\* between module_init and module_close; s is the stream slot stp points to.
decode_update(s, stpNull, afNull, prmNull, nomem) ==
    /\ phase = "loaded"
    /\ IF stpNull \/ afNull \/ prmNull
         THEN /\ last' = Ev("decode_update", EINVAL)
              /\ UNCHANGED dec
         ELSE IF dec[s].alive
         THEN /\ last' = Ev("decode_update", 0)
              /\ UNCHANGED dec
         ELSE IF nomem
         THEN /\ last' = Ev("decode_update", ENOMEM)
              /\ UNCHANGED dec
         ELSE /\ dec' = [dec EXCEPT ![s] =
                            [NoDec EXCEPT !.alive = TRUE, !.tmr = TRUE]]
              /\ last' = Ev("decode_update", 0)
    /\ UNCHANGED <<phase, conf_vars, ptt_release, current, gpio_out, nwrites,
                   nchanges, since>>

\* The host calls decode for a slot that holds a decoder state, also after
\* module_close; the frame has sampc samples of loudness level.
decode(s, stNull, sampvNull, sampcNull, sampc, level) ==
    /\ dec[s].alive
    /\ IF stNull \/ sampvNull \/ sampcNull
         THEN /\ last' = Ev("decode", EINVAL)
              /\ UNCHANGED dec
         ELSE /\ dec' = [dec EXCEPT
                           ![s].avg_play = aulevel_calc_dbov(sampc, level),
                           ![s].started = TRUE]
              /\ last' = Ev("decode", 0)
    /\ UNCHANGED <<phase, conf_vars, ptt_release, current, gpio_out, nwrites,
                   nchanges, since>>

\* Mutant of dec_destructor: it also calls ptt_set(0).
dec_destructor_ReleasesPtt(s) ==
    /\ dec[s].alive
    /\ dec' = [dec EXCEPT ![s] = NoDec]
    /\ Output(ptt_set(FALSE, current, vox_gpio_ptt))
    /\ last' = Ev("dec_destructor", 0)
    /\ UNCHANGED <<phase, conf_vars, ptt_release, since>>

\* Mutant of dec_destructor: tmr_cancel is left out.
dec_destructor_KeepsTimer(s) ==
    /\ dec[s].alive
    /\ dec' = [dec EXCEPT ![s] = [NoDec EXCEPT !.tmr = TRUE]]
    /\ last' = Ev("dec_destructor", 0)
    /\ UNCHANGED <<phase, conf_vars, ptt_release, current, gpio_out, nwrites,
                   nchanges, since>>

\* list_unlink and tmr_cancel: the slot is empty again, no timer is armed.
dec_destructor(s) ==
    /\ dec[s].alive
    /\ dec' = [dec EXCEPT ![s] = NoDec]
    /\ last' = Ev("dec_destructor", 0)
    /\ UNCHANGED <<phase, conf_vars, ptt_release, current, gpio_out, nwrites,
                   nchanges, since>>

\* The call vox_update(st->avg_play) of the handler of slot s, which read
\* st->started as "started".
Tick(s, level, started) ==
    LET value == dec[s].avg_play
        r == vox_update(value, ptt_release, current, Cfg, level)
    IN  /\ ptt_release' = r.ptt_release
        /\ Output(r)
        /\ since' = IF r.sq
                      THEN (IF ptt_release > 0 \/ since = -2 THEN -2 ELSE -1)
                    ELSE IF value > -vox_threshold THEN 0
                    ELSE IF since < 0 THEN since
                    ELSE Min(since + 1, MaxSince)
        /\ last' = [Ev("tmr", 0) EXCEPT
                      !.started = started, !.sq = r.sq, !.value = value,
                      !.rel0 = ptt_release, !.cur0 = current,
                      !.read = r.read, !.wrote = r.wrote]

\* Mutant of dec_tmr_handler: vox_update is called whatever started is.
dec_tmr_handler_IgnoresStarted(s, level) ==
    /\ dec[s].alive
    /\ dec[s].tmr
    /\ dec' = [dec EXCEPT ![s].tmr = TRUE]
    /\ Tick(s, level, dec[s].started)
    /\ UNCHANGED <<phase, conf_vars>>

dec_tmr_handler(s, level) ==
    /\ dec[s].alive
    /\ dec[s].tmr
    /\ dec' = [dec EXCEPT ![s].tmr = TRUE]
    /\ IF dec[s].started
         THEN Tick(s, level, TRUE)
         ELSE /\ last' = Ev("tmr", 0)
              /\ UNCHANGED <<ptt_release, current, gpio_out, nwrites,
                             nchanges, since>>
    /\ UNCHANGED <<phase, conf_vars>>

\* The handlers in any order: no assumption on when a timer fires.
Next ==
    \/ /\ \E conf \in Confs : module_init(conf)
       /\ UNCHANGED <<timed_vars, race_vars>>
    \/ /\ module_close
       /\ UNCHANGED <<timed_vars, race_vars>>
    \/ /\ \E s \in Slots, a \in UpdateArgs :
             decode_update(s, a[1][1], a[1][2], a[1][3], a[2])
       /\ UNCHANGED <<timed_vars, race_vars>>
    \/ /\ \E s \in Slots, a \in DecodeArgs :
             decode(s, a[1][1], a[1][2], a[1][3], a[2], a[3])
       /\ UNCHANGED <<timed_vars, race_vars>>
    \/ /\ \E s \in Slots : dec_destructor(s)
       /\ UNCHANGED <<timed_vars, race_vars>>
    \/ /\ \E s \in Slots, level \in BOOLEAN : dec_tmr_handler(s, level)
       /\ UNCHANGED <<timed_vars, race_vars>>

Spec == Init /\ [][Next]_vars

(* ------------------------- the timers in time -------------------------- *)

\* Time is cut into periods of UPDATE_PERIOD ms.  A timer started with
\* tmr_start(tmr, UPDATE_PERIOD, ...) during a period fires during the
\* next one, so the handler of a live decoder state runs once in every
\* period that begins after its creation, the handlers of one period in
\* any order.

\* The configurations of the timed specification: ptt_pin set, squelch_pin
\* unset.
TimedConfs ==
    {c \in Confs : /\ c.gpio_squelch = << >>
                   /\ c.gpio_ptt # << >>
                   /\ c.threshold = << >>}

TimedInit(conf) ==
    /\ module_init(conf)
    /\ UNCHANGED <<timed_vars, race_vars>>

TimedClose ==
    /\ module_close
    /\ UNCHANGED <<timed_vars, race_vars>>

\* decode_update: the timer of a new decoder state is due next period.
TimedUpdate(s, a) ==
    /\ decode_update(s, a[1][1], a[1][2], a[1][3], a[2])
    /\ fired' = IF dec'[s].alive /\ ~dec[s].alive THEN fired \cup {s}
                                                  ELSE fired
    /\ UNCHANGED <<relStart, psince, race_vars>>

TimedDecode(s, a) ==
    /\ decode(s, a[1][1], a[1][2], a[1][3], a[2], a[3])
    /\ UNCHANGED <<timed_vars, race_vars>>

TimedDestroy(s) ==
    /\ dec_destructor(s)
    /\ fired' = fired \ {s}
    /\ UNCHANGED <<relStart, psince, race_vars>>

\* The timer of slot s fires: once per period.
TimedTick(s) ==
    /\ s \notin fired
    /\ dec_tmr_handler(s, FALSE)
    /\ fired' = fired \cup {s}
    /\ psince' = IF dec[s].started /\ dec[s].avg_play > -vox_threshold
                   THEN 0 ELSE psince
    /\ UNCHANGED <<relStart, race_vars>>

\* UPDATE_PERIOD ms have passed: every armed timer has fired.
NextPeriod ==
    /\ \A s \in Slots : dec[s].tmr => s \in fired
    /\ fired' = {}
    /\ relStart' = ptt_release
    /\ psince' = IF psince < 0 THEN psince ELSE Min(psince + 1, MaxSince)
    /\ UNCHANGED <<phase, conf_vars, ptt_release, current, dec, gpio_out,
                   nwrites, nchanges, since, last, race_vars>>

TimedNext ==
    \/ \E conf \in TimedConfs : TimedInit(conf)
    \/ TimedClose
    \/ \E s \in Slots, a \in UpdateArgs : TimedUpdate(s, a)
    \/ \E s \in Slots, a \in DecodeArgs : TimedDecode(s, a)
    \/ \E s \in Slots : TimedDestroy(s)
    \/ \E s \in Slots : TimedTick(s)
    \/ NextPeriod

TimedSpec == Init /\ [][TimedNext]_vars

(* ----------------------- decode on another thread ---------------------- *)

\* The host may deliver audio on a thread of its own while the timers run
\* on the main loop.  decode stores avg_play (a plain double) and then
\* started (volatile) without a lock or a barrier: a data race, in which
\* the compiler and the processor are free to make the two stores visible
\* to the timer thread in either order.  DecodeBegin is decode up to its
\* first visible store, DecodeEnd its second store and its return.

\* The configurations of this specification: ptt_pin set, squelch_pin
\* unset.
RaceConfs ==
    {c \in Confs : /\ c.gpio_squelch = << >>
                   /\ c.gpio_ptt # << >>
                   /\ c.threshold = << >>}

RaceInit(conf) ==
    /\ module_init(conf)
    /\ UNCHANGED <<timed_vars, race_vars>>

RaceClose ==
    /\ module_close
    /\ UNCHANGED <<timed_vars, race_vars>>

RaceUpdate(s, a) ==
    /\ decode_update(s, a[1][1], a[1][2], a[1][3], a[2])
    /\ UNCHANGED <<timed_vars, race_vars>>

\* The host destroys a decoder state only when no decode runs on it.
RaceDestroy(s) ==
    /\ pend[s] = NoStore
    /\ dec_destructor(s)
    /\ written' = written \ {s}
    /\ UNCHANGED <<timed_vars, pend>>

DecodeBegin(s, stNull, sampvNull, sampcNull, sampc, level) ==
    /\ dec[s].alive
    /\ pend[s] = NoStore
    /\ IF stNull \/ sampvNull \/ sampcNull
         THEN /\ last' = Ev("decode", EINVAL)
              /\ UNCHANGED <<dec, race_vars>>
         ELSE LET v == aulevel_calc_dbov(sampc, level)
              IN  /\ last' = Ev("decode_store", 0)
                  /\ \/ /\ dec' = [dec EXCEPT ![s].avg_play = v]
                        /\ written' = written \cup {s}
                        /\ pend' = [pend EXCEPT ![s] =
                                      [store |-> "started", value |-> 0]]
                     \/ /\ dec' = [dec EXCEPT ![s].started = TRUE]
                        /\ written' = written
                        /\ pend' = [pend EXCEPT ![s] =
                                      [store |-> "avg_play", value |-> v]]
    /\ UNCHANGED <<phase, conf_vars, ptt_release, current, gpio_out, nwrites,
                   nchanges, since, timed_vars>>

DecodeEnd(s) ==
    /\ pend[s] # NoStore
    /\ IF pend[s].store = "avg_play"
         THEN /\ dec' = [dec EXCEPT ![s].avg_play = pend[s].value]
              /\ written' = written \cup {s}
         ELSE /\ dec' = [dec EXCEPT ![s].started = TRUE]
              /\ written' = written
    /\ pend' = [pend EXCEPT ![s] = NoStore]
    /\ last' = Ev("decode", 0)
    /\ UNCHANGED <<phase, conf_vars, ptt_release, current, gpio_out, nwrites,
                   nchanges, since, timed_vars>>

\* The timer thread: the handler of slot s, between any two stores.
RaceTick(s, level) ==
    /\ dec_tmr_handler(s, level)
    /\ UNCHANGED <<timed_vars, race_vars>>

RaceNext ==
    \/ \E conf \in RaceConfs : RaceInit(conf)
    \/ RaceClose
    \/ \E s \in Slots, a \in UpdateArgs : RaceUpdate(s, a)
    \/ \E s \in Slots, a \in DecodeArgs :
          DecodeBegin(s, a[1][1], a[1][2], a[1][3], a[2], a[3])
    \/ \E s \in Slots : DecodeEnd(s)
    \/ \E s \in Slots : RaceDestroy(s)
    \/ \E s \in Slots : RaceTick(s, FALSE)

RaceSpec == Init /\ [][RaceNext]_vars

(* ------------------------------ properties ----------------------------- *)

Max(a, b) == IF a > b THEN a ELSE b

\* The state at the end of a tick: the operation that ran last is a timer
\* handler that read started = true and so ran vox_update.
TickEnd == last.op = "tmr" /\ last.started

\* The tick that ran last was a qualifying one (loudness above threshold).
LastQualifies == last.value > -vox_threshold

\* C1: a tick during which the squelch input reads asserted ends with the
\* countdown at 0 and the output disabled, whatever the loudness and the
\* countdown before the tick.
C1_SquelchDisables ==
    (TickEnd /\ last.sq) => (ptt_release = 0 /\ ~current)

\* A squelched tick that started with the output enabled, the countdown
\* running and a loudness above the threshold.
C1_Witness ==
    /\ TickEnd /\ last.sq /\ LastQualifies
    /\ last.rel0 > 0 /\ last.cur0
    /\ ptt_release = 0 /\ ~current

\* C2 as stated: with no squelch since the last qualifying tick, the output
\* is enabled at the end of each of the N = vox_holdtime / UPDATE_PERIOD
\* ticks that follow the qualifying one.
C2_Original ==
    (TickEnd /\ since >= 1 /\ since <= HoldTicks /\ since < MaxSince)
        => current

\* C2 as amended: with no squelch since the last qualifying tick, the output
\* is enabled at the end of the qualifying tick and of each of the N - 1
\* ticks that follow it (N ticks in all).
C2_HoldsForNTicks ==
    (TickEnd /\ since >= 0 /\ since <= HoldTicks - 1 /\ since < MaxSince)
        => current

\* The last tick of a hold of at least two ticks: a tick below the
\* threshold, N - 1 ticks after the qualifying one, that ends enabled.
C2_Witness ==
    /\ TickEnd /\ ~LastQualifies /\ ~last.sq
    /\ HoldTicks >= 2 /\ since = HoldTicks - 1
    /\ current

\* C3: for N >= 1 and no squelch since the last qualifying tick k, the
\* output is enabled at the end of ticks k .. k+N-1 and disabled at the end
\* of tick k+N and of every later tick; the countdown is N - 1 at the end of
\* every qualifying tick (re-armed each time) and one less after each tick
\* that follows, down to zero.
C3_HoldExpires ==
    (TickEnd /\ HoldTicks >= 1 /\ HoldTicks <= MaxSince /\ since >= 0)
        => /\ current <=> (since < HoldTicks)
           /\ ptt_release = Max(HoldTicks - 1 - since, 0)

\* threshold = 60, hold_time = 200: the end of tick3, the second tick below
\* the threshold after the qualifying tick1, where the output is released.
C3_Witness ==
    /\ TickEnd /\ vox_threshold = 60 /\ vox_holdtime = 200
    /\ since = 2 /\ last.cur0 /\ last.rel0 = 0
    /\ ~current /\ ptt_release = 0

\* C4 as stated: a tick that starts with the output disabled ends with the
\* output enabled if and only if squelch is not asserted and the loudness is
\* strictly above -vox_threshold.
C4_Original ==
    (TickEnd /\ ~last.cur0)
        => (current <=> (~last.sq /\ LastQualifies))

\* C5 as stated: at the end of every tick the output is enabled if and only
\* if the countdown is greater than zero.
C5_Original ==
    TickEnd => (current <=> ptt_release > 0)

\* The countdown as the tick that ran last tested it: after the squelch and
\* threshold step, before the decrement.
LastArmed ==
    IF last.sq THEN 0
    ELSE IF LastQualifies THEN HoldTicks
    ELSE last.rel0

\* C5 as amended: at the end of every tick the output is enabled if and only
\* if the countdown was greater than zero when the tick tested it, before
\* decrementing it; the countdown at the end of the tick is then one less, so
\* a countdown greater than zero implies an enabled output and not the
\* converse.
C5_EnabledIffArmed ==
    TickEnd => /\ current <=> (LastArmed > 0)
               /\ ptt_release = IF LastArmed > 0 THEN LastArmed - 1
                                                 ELSE LastArmed
               /\ ptt_release > 0 => current

\* The end of the last tick of a hold: enabled with the countdown at zero.
C5_Witness ==
    TickEnd /\ current /\ ptt_release = 0 /\ last.rel0 = 1

\* C6 as stated: the countdown is never negative and never above
\* vox_holdtime / UPDATE_PERIOD.
C6_Original ==
    0 <= ptt_release /\ ptt_release <= HoldTicks

\* C7: a firing of the timer handler of a decoder state whose started flag
\* is false changes neither the countdown nor the output, reads no squelch
\* input and writes no GPIO; so the countdown stays 0 and the output stays
\* disabled however many such ticks fire.
C7_IdleTick ==
    [][(last'.op = "tmr" /\ ~last'.started)
          => /\ ptt_release' = ptt_release
             /\ current' = current
             /\ nwrites' = nwrites /\ gpio_out' = gpio_out
             /\ nchanges' = nchanges
             /\ ~last'.read /\ ~last'.wrote]_vars

\* A handler has just fired for a decoder state that decode() never
\* reached, the only one alive: countdown 0, output disabled, no write.
C7_Witness ==
    /\ last.op = "tmr" /\ ~last.started
    /\ \E s \in Slots : dec[s].alive /\ ~dec[s].started
    /\ \A s \in Slots : ~dec[s].started
    /\ ptt_release = 0 /\ ~current /\ nwrites = 0

\* C8 as stated: the number of digitalWrite calls equals the number of
\* changes of the logical output.
C8_Original ==
    nwrites = nchanges

\* C8 as amended: with ptt_pin set, the number of writes equals the number
\* of changes of the logical output, and with ptt_pin unset no write is
\* made; every write goes with a change of the logical output and carries
\* the new value, so consecutive writes alternate; and a tick that repeats
\* the inputs of the tick before it, which started with the countdown at
\* zero, writes nothing.
C8_WriteOnChange ==
    /\ [](nwrites = IF vox_gpio_ptt # -1 THEN nchanges ELSE 0)
    /\ [][nwrites' # nwrites
             => /\ nwrites' = nwrites + 1
                /\ vox_gpio_ptt # -1
                /\ current' # current
                /\ gpio_out' = (IF current' THEN "HIGH" ELSE "LOW")
                /\ gpio_out' # gpio_out
                /\ gpio_out = "none" => gpio_out' = "HIGH"]_vars
    /\ [][(/\ TickEnd /\ TickEnd'
           /\ last.rel0 = 0
           /\ last'.sq = last.sq /\ last'.value = last.value)
             => (~last'.wrote /\ nwrites' = nwrites)]_vars

\* With ptt_pin set, after one HIGH and one LOW write: a tick that starts
\* with the countdown at zero and the output disabled, and writes nothing.
C8_Witness ==
    /\ vox_gpio_ptt # -1
    /\ TickEnd /\ last.rel0 = 0 /\ ~last.cur0 /\ ~last.wrote
    /\ nwrites = 2 /\ nchanges = 2 /\ gpio_out = "LOW"

\* Both pins unset.
PinsUnset == vox_gpio_ptt = -1 /\ vox_gpio_squelch = -1

\* The settings of the run C9 compares with: both pins set.
RefCfg == [Cfg EXCEPT !.ptt = 7, !.squelch = 2]

\* C9: with both pins unset no GPIO read or write is ever invoked, and every
\* tick and the module_close take the countdown and the logical output to
\* the values that the same step takes them to with both pins set and the
\* squelch input not asserted: the two runs, which start from the same
\* state, go through the same sequence of values.
C9_DryRun ==
    /\ [](PinsUnset
            => (nwrites = 0 /\ gpio_out = "none"
                /\ ~last.read /\ ~last.wrote))
    /\ [][(PinsUnset /\ TickEnd')
             => LET r == vox_update(last'.value, ptt_release, current,
                                    RefCfg, FALSE)
                IN  /\ ptt_release' = r.ptt_release
                    /\ current' = r.current
                    /\ ~r.sq]_vars
    /\ [][(PinsUnset /\ last'.op = "module_close")
             => /\ current' = ptt_set(FALSE, current, RefCfg.ptt).current
                /\ ptt_release' = ptt_release]_vars

\* With both pins unset: the end of the tick that releases the output after
\* a hold; the logical output went ENABLED and back, and nothing was written.
C9_Witness ==
    /\ PinsUnset /\ TickEnd
    /\ last.cur0 /\ ~current /\ nchanges = 2
    /\ nwrites = 0 /\ gpio_out = "none"

\* C10 as stated: in every state after module_close has returned, the
\* output is disabled and the operation that ran last is not a tick.
C10_Original ==
    phase = "closed" => (~current /\ ~TickEnd)

\* C11 as stated: decode() called with a null state, a null sample buffer,
\* a null sample-count pointer or an empty frame (*sampc = 0) is rejected
\* and leaves avg_play and started as they were.
C11_Original ==
    [][\A s \in Slots, a \in DecodeArgs :
          (/\ decode(s, a[1][1], a[1][2], a[1][3], a[2], a[3])
           /\ (a[1] # ValidArgs \/ a[2] = 0))
             => (last'.ret = EINVAL /\ dec' = dec)]_vars

\* What a setting holds after module_init according to C12: the default
\* when the entry is absent or its value does not fit an int, the
\* configured value otherwise.
Setting(entry, default) ==
    IF entry = << >> \/ entry[1] >= HALF \div 2 THEN default
                                                ELSE U32ToInt(entry)

\* C12 as stated: after module_init each setting holds its default (60,
\* 1000, unset, unset) when it is absent or out of range, and the
\* configured value otherwise; module_init returns 0.
C12_Original ==
    [][\A conf \in Confs :
          module_init(conf)
             => /\ vox_threshold' = Setting(conf.threshold, 60)
                /\ vox_holdtime' = Setting(conf.holdtime, 1000)
                /\ vox_gpio_ptt' = Setting(conf.gpio_ptt, -1)
                /\ vox_gpio_squelch' = Setting(conf.gpio_squelch, -1)
                /\ last'.ret = 0]_vars

\* C13: once a tick has read squelch asserted, the countdown is 0 and the
\* output is disabled at the end of every tick until a tick that reads
\* squelch not asserted and a loudness above the threshold, whatever the
\* countdown was before the squelched tick; the same holds as long as no
\* tick has qualified at all.
C13_SquelchDiscardsHold ==
    (TickEnd /\ since < 0) => (~current /\ ptt_release = 0)

\* A squelched tick cut a running hold short; squelch is released and a
\* tick below the threshold has run: the output is still disabled.
C13_Witness ==
    /\ TickEnd /\ since = -2
    /\ ~last.sq /\ ~LastQualifies /\ ~last.cur0
    /\ ~current /\ ptt_release = 0

\* C14 as stated (TimedSpec): also with two decoder states alive, the
\* countdown decreases by at most one per period of UPDATE_PERIOD ms, and
\* the output is enabled in the period of the last qualifying tick and the
\* N - 1 periods after it (N = vox_holdtime / UPDATE_PERIOD), as it is with
\* a single decoder state (squelch unset, module not closed).
C14_Original ==
    /\ relStart - ptt_release <= 1
    /\ (phase = "loaded" /\ psince >= 0 /\ psince < HoldTicks) => current

C16_Original ==
    [][\A s \in Slots, level \in BOOLEAN :
          (dec_tmr_handler(s, level) /\ dec[s].started)
             => /\ last'.value = dec[s].avg_play
                /\ (~last'.sq /\ dec[s].avg_play > -vox_threshold)
                      => current']_vars

\* C17: dec_destructor leaves the countdown and the last-applied output
\* unchanged and writes no GPIO; and the output goes from enabled to
\* disabled only in module_close or in a tick of a live, started decoder
\* state, so after the only live decoder state was destroyed it stays
\* enabled until module_close or a tick of a newly created state.
C17_DestructorKeepsOutput ==
    [][/\ last'.op = "dec_destructor"
            => /\ UNCHANGED <<ptt_release, current, gpio_out, nwrites>>
               /\ ~last'.wrote
       /\ (current /\ ~current')
            => \/ last'.op = "module_close"
               \/ /\ last'.op = "tmr" /\ last'.started
                  /\ \E s \in Slots : dec[s].alive /\ dec[s].started]_vars

\* The only live decoder state was destroyed during a hold: the output is
\* enabled, the countdown is running and no timer is left to end it.
C17_Witness ==
    /\ last.op = "dec_destructor"
    /\ \A s \in Slots : ~dec[s].alive
    /\ current /\ ptt_release > 0 /\ gpio_out = "HIGH"
    /\ phase = "loaded"

\* C18: a decoder state has its timer armed from decode_update until
\* dec_destructor, across every firing of its handler whether or not started
\* is set, and an empty slot has no timer armed, so that its handler cannot
\* run.
C18_TimerLifecycle ==
    \A s \in Slots :
        /\ dec[s].tmr <=> dec[s].alive
        /\ ~dec[s].alive => ~ENABLED dec_tmr_handler(s, FALSE)

\* After ticks of both kinds one decoder state was destroyed: its timer is
\* cancelled, the timers of the started and of the idle one were re-armed.
C18_Witness ==
    /\ last.op = "dec_destructor"
    /\ since >= 0
    /\ \E s \in Slots : dec[s].alive /\ dec[s].tmr
    /\ \E s \in Slots : ~dec[s].alive /\ ~dec[s].tmr

\* The decoder state that decode_update allocates.
FreshDec == [alive |-> TRUE, tmr |-> TRUE, started |-> FALSE, avg_play |-> 0]

\* C19: decode_update with a null stp, af or prm returns EINVAL, with *stp
\* set it returns 0, and both leave every decoder state and timer as they
\* are; only with valid arguments and *stp null does it allocate a state
\* with started = false and its timer armed (ENOMEM, nothing created, when
\* the allocation fails).
C19_OneStatePerSlot ==
    [][\A s \in Slots, a \in UpdateArgs :
          decode_update(s, a[1][1], a[1][2], a[1][3], a[2])
             => IF a[1] # ValidArgs
                  THEN last'.ret = EINVAL /\ dec' = dec
                ELSE IF dec[s].alive
                  THEN last'.ret = 0 /\ dec' = dec
                ELSE IF a[2]
                  THEN last'.ret = ENOMEM /\ dec' = dec
                ELSE /\ last'.ret = 0
                     /\ dec' = [dec EXCEPT ![s] = FreshDec]]_vars

\* decode_update returned 0 for a slot that holds a state: every slot holds
\* a started state, so the call created none.
C19_Witness ==
    /\ last.op = "decode_update" /\ last.ret = 0
    /\ \A s \in Slots : dec[s].alive /\ dec[s].started /\ dec[s].tmr

====
